---- MODULE Spec2Model ----
(***************************************************************************)
(* Prompt Builder actions (createCollection ... listPromptVariables) over  *)
(* the three tables PromptCollections, PromptTemplates, PromptVariables.   *)
(*                                                                         *)
(* Every request runs in a slot of `req`.  A handler is a sequence of      *)
(* awaited store statements with no enclosing transaction, so each store   *)
(* statement is one atomic step and the steps of different requests        *)
(* interleave.  The schema validation and requireUser are local to the     *)
(* request and are taken together with the first store statement.          *)
(*                                                                         *)
(* An input object is a record whose DOMAIN is the set of keys the caller  *)
(* supplied: `input.k !== undefined` is `k \in DOMAIN input`.  A nullable  *)
(* column holds NULL (the empty tuple) or <<v>>.                           *)
(***************************************************************************)
EXTENDS Naturals, Sequences, FiniteSets, TLC

\* ------------------------------------------------------------------ bounds
MaxInFlight == 2
MaxCollections == 1
MaxTemplates == 1
MaxRaceTemplates == 2
MaxVariables == 1
MaxClock == 1

VARIABLES
    collections,   \* rows of PromptCollections
    templates,     \* rows of PromptTemplates
    variables,     \* rows of PromptVariables
    issued,        \* how many PromptVariables ids crypto.randomUUID() has issued
    created,       \* history: <<id, user>> of every createCollection that succeeded
    now,           \* the value new Date() returns
    req,           \* the requests in flight: caller, input, position
    response       \* the response returned last

vars == <<collections, templates, variables, issued, created, now, req, response>>
store == <<collections, templates, variables, issued, created>>

\* ------------------------------------------------------------ environment
Users == {"A", "B"}
NoUser == "anonymous"
Callers == Users \cup {NoUser}
Reqs == 1 .. MaxInFlight

NULL == <<>>
Some(v) == <<v>>

Has(input, k) == k \in DOMAIN input
\* the value an insert stores in an optional column for input.k
Opt(input, k) == IF Has(input, k) THEN Some(input[k]) ELSE NULL

CollectionId(i) == "c" \o ToString(i)
TemplateId(i) == "t" \o ToString(i)
VariableId(i) == "v" \o ToString(i)

\* ids a caller may send: every id the store can hold, one it cannot, and ""
CollectionIdArgs == {CollectionId(i) : i \in 1 .. MaxCollections} \cup {"zz"}
TemplateIdArgs == {TemplateId(i) : i \in 1 .. MaxRaceTemplates} \cup {"zz"}
VariableIdArgs == {VariableId(i) : i \in 1 .. MaxVariables} \cup {"zz"}

\* ------------------------------------------------------------------ tables
PromptCollectionsRow(id, userId, input, at) ==
    [id |-> id, userId |-> userId, name |-> input.name,
     description |-> Opt(input, "description"), icon |-> Opt(input, "icon"),
     isDefault |-> IF Has(input, "isDefault") THEN input.isDefault ELSE FALSE,
     createdAt |-> at, updatedAt |-> at]

PromptTemplatesRow(id, userId, input, at) ==
    [id |-> id, collectionId |-> Opt(input, "collectionId"), userId |-> userId,
     name |-> input.name, description |-> Opt(input, "description"),
     modelHint |-> Opt(input, "modelHint"), promptBody |-> input.promptBody,
     tags |-> Opt(input, "tags"),
     isFavorite |-> IF Has(input, "isFavorite") THEN input.isFavorite ELSE FALSE,
     isSystem |-> FALSE, createdAt |-> at, updatedAt |-> at]

PromptVariablesRow(id, input, at) ==
    [id |-> id, templateId |-> input.templateId, name |-> input.name,
     label |-> Opt(input, "label"), description |-> Opt(input, "description"),
     inputType |-> Opt(input, "inputType"), defaultValue |-> Opt(input, "defaultValue"),
     optionsJson |-> Opt(input, "optionsJson"), orderIndex |-> Opt(input, "orderIndex"),
     createdAt |-> at]

\* collectionId: references PromptCollections.id, optional
TemplateReferenceHolds(collectionId) ==
    collectionId = NULL \/ \E c \in collections : Some(c.id) = collectionId

\* templateId: references PromptTemplates.id
VariableReferenceHolds(templateId) ==
    \E t \in templates : t.id = templateId

\* ---------------------------------------------------------------- requests
Idle == [op |-> "none", user |-> NoUser, input |-> <<>>, pc |-> "idle", stmts |-> 0]

NoResponse == [op |-> "none", user |-> NoUser, input |-> <<>>, code |-> "none",
               data |-> {}, total |-> NULL, stmts |-> 0]

\* no response is on its way to a caller
Ready == response = NoResponse

\* a new request takes the first free slot (the slots are interchangeable)
Free(r) ==
    /\ Ready
    /\ req[r].pc = "idle"
    /\ \A q \in Reqs : q < r => req[q].pc # "idle"

\* a request that ends in its first step: slot r stays free and the response is
\* an error code, or "OK" with the rows returned; stmts counts the store
\* statements the request has issued
Respond(op, user, input, code, data, stmts) ==
    /\ response' = [op |-> op, user |-> user, input |-> input, code |-> code,
                    data |-> data, total |-> NULL, stmts |-> stmts]
    /\ UNCHANGED req

\* { success: true, data: { items, total: items.length } } after one statement
RespondItems(op, user, input, items) ==
    /\ response' = [op |-> op, user |-> user, input |-> input, code |-> "OK",
                    data |-> items, total |-> Some(Cardinality(items)), stmts |-> 1]
    /\ UNCHANGED req

\* the request in slot r ends
Return(r, code, data) ==
    /\ response' = [op |-> req[r].op, user |-> req[r].user, input |-> req[r].input,
                    code |-> code, data |-> data, total |-> NULL,
                    stmts |-> req[r].stmts + 1]
    /\ req' = [req EXCEPT ![r] = Idle]

\* the request in slot r ends with { items, total: items.length }
ReturnItems(r, items) ==
    /\ response' = [op |-> req[r].op, user |-> req[r].user, input |-> req[r].input,
                    code |-> "OK", data |-> items, total |-> Some(Cardinality(items)),
                    stmts |-> req[r].stmts + 1]
    /\ req' = [req EXCEPT ![r] = Idle]

\* a request takes slot r and awaits its next store statement
Await(r, op, user, input, pc, stmts) ==
    /\ req' = [req EXCEPT ![r] = [op |-> op, user |-> user, input |-> input, pc |-> pc,
                                  stmts |-> stmts]]
    /\ UNCHANGED response

\* the request in slot r has issued one more statement and awaits the next
Continue(r, pc) ==
    /\ req' = [req EXCEPT ![r].pc = pc, ![r].stmts = @ + 1]
    /\ UNCHANGED response

At(r, op, pc) == Ready /\ req[r].op = op /\ req[r].pc = pc

InFlight(op) == Cardinality({r \in Reqs : req[r].op = op})

\* the rows stored and about to be inserted are at most c, t and v
Within(c, t, v) ==
    /\ Cardinality(collections) <= c
    /\ Cardinality(templates) + InFlight("createTemplate") <= t
    /\ issued + InFlight("createPromptVariable") <= v

\* ------------------------------------------------------------------- helpers
\* requireUser without the check of locals.user
requireUser_anyone(user) == TRUE

requireUser(user) == user # NoUser

\* getOwnedCollection written the way getOwnedTemplate is
getOwnedCollection_byIdThenOwner(collectionId, userId) ==
    LET found == {c \in collections : c.id = collectionId}
    IN  IF found = {} THEN "NOT_FOUND"
        ELSE IF \E c \in found : c.userId # userId THEN "FORBIDDEN"
        ELSE "OK"

getOwnedCollection(collectionId, userId) ==
    LET found == {c \in collections : c.id = collectionId /\ c.userId = userId}
    IN  IF found = {} THEN "NOT_FOUND" ELSE "OK"

\* getOwnedTemplate without the comparison of template.userId
getOwnedTemplate_anyOwner(templateId, userId) ==
    LET found == {t \in templates : t.id = templateId}
    IN  IF found = {} THEN "NOT_FOUND" ELSE "OK"

getOwnedTemplate(templateId, userId) ==
    LET found == {t \in templates : t.id = templateId}
    IN  IF found = {} THEN "NOT_FOUND"
        ELSE IF \E t \in found : t.userId # userId THEN "FORBIDDEN"
        ELSE "OK"

\* ------------------------------------------------------------- collections
CreateCollectionInputs ==
    { [name |-> "n"], [name |-> ""] }

createCollection_input(input) == input.name # ""

createCollection(r, user, input) ==
    /\ Free(r)
    /\ IF ~createCollection_input(input)
        THEN Respond("createCollection", user, input, "VALIDATION", {}, 0)
             /\ UNCHANGED <<store, now>>
        ELSE IF ~requireUser(user)
        THEN Respond("createCollection", user, input, "UNAUTHORIZED", {}, 0)
             /\ UNCHANGED <<store, now>>
        ELSE /\ LET collection == PromptCollectionsRow(
                        CollectionId(Cardinality(collections) + 1), user, input, now)
                IN  /\ collections' = collections \cup {collection}
                    /\ created' = created \cup {<<collection.id, user>>}
                    /\ Respond("createCollection", user, input, "OK", {collection}, 1)
             /\ UNCHANGED <<templates, variables, issued, now>>

UpdateCollectionInputs ==
    UNION { { [id |-> id], [id |-> id, name |-> "m"], [id |-> id, name |-> ""] }
            : id \in CollectionIdArgs }
    \cup { [id |-> "", name |-> "m"] }

updateCollection_input(input) ==
    /\ input.id # ""
    /\ Has(input, "name") => input.name # ""
    /\ \/ Has(input, "name")
       \/ Has(input, "description")
       \/ Has(input, "icon")
       \/ Has(input, "isDefault")

updateCollection(r, user, input) ==
    /\ Free(r)
    /\ UNCHANGED <<store, now>>
    /\ IF ~updateCollection_input(input)
        THEN Respond("updateCollection", user, input, "VALIDATION", {}, 0)
        ELSE IF ~requireUser(user)
        THEN Respond("updateCollection", user, input, "UNAUTHORIZED", {}, 0)
        ELSE IF getOwnedCollection(input.id, user) # "OK"
        THEN Respond("updateCollection", user, input,
                     getOwnedCollection(input.id, user), {}, 1)
        ELSE Await(r, "updateCollection", user, input, "update", 1)

updateCollection_set(c, input, at) ==
    [c EXCEPT !.name = IF Has(input, "name") THEN input.name ELSE @,
              !.description = IF Has(input, "description") THEN Some(input.description) ELSE @,
              !.icon = IF Has(input, "icon") THEN Some(input.icon) ELSE @,
              !.isDefault = IF Has(input, "isDefault") THEN input.isDefault ELSE @,
              !.updatedAt = at]

updateCollection_update(r) ==
    /\ At(r, "updateCollection", "update")
    /\ LET input == req[r].input
           hit == {c \in collections : c.id = input.id}
           returning == {updateCollection_set(c, input, now) : c \in hit}
       IN  /\ collections' = (collections \ hit) \cup returning
           /\ Return(r, "OK", returning)
    /\ UNCHANGED <<templates, variables, issued, created, now>>

\* listCollections without its where clause
listCollections_all(c, user) == TRUE

listCollections_where(c, user) == c.userId = user

listCollections(r, user) ==
    /\ Free(r)
    /\ UNCHANGED <<store, now>>
    /\ IF ~requireUser(user)
        THEN Respond("listCollections", user, <<>>, "UNAUTHORIZED", {}, 0)
        ELSE LET items == {c \in collections : listCollections_where(c, user)}
             IN  RespondItems("listCollections", user, <<>>, items)

\* ---------------------------------------------------------------- templates
CreateTemplateInputs ==
    { [name |-> "n", promptBody |-> "p"], [name |-> "", promptBody |-> "p"],
      [name |-> "n", promptBody |-> ""] }
    \cup { [collectionId |-> c, name |-> "n", promptBody |-> "p"]
           : c \in CollectionIdArgs \cup {""} }

createTemplate_input(input) == input.name # "" /\ input.promptBody # ""

\* createTemplate without the resolution of collectionId
createTemplate_checksNothing(input) == FALSE

\* if (input.collectionId)
createTemplate_checksCollection(input) ==
    Has(input, "collectionId") /\ input.collectionId # ""

createTemplate(r, user, input) ==
    /\ Free(r)
    /\ UNCHANGED <<store, now>>
    /\ IF ~createTemplate_input(input)
        THEN Respond("createTemplate", user, input, "VALIDATION", {}, 0)
        ELSE IF ~requireUser(user)
        THEN Respond("createTemplate", user, input, "UNAUTHORIZED", {}, 0)
        ELSE IF ~createTemplate_checksCollection(input)
        THEN Await(r, "createTemplate", user, input, "insert", 0)
        ELSE IF getOwnedCollection(input.collectionId, user) # "OK"
        THEN Respond("createTemplate", user, input,
                     getOwnedCollection(input.collectionId, user), {}, 1)
        ELSE Await(r, "createTemplate", user, input, "insert", 1)

\* The insert.  Whether the store checks the declared reference of collectionId
\* is a matter of its configuration: a row whose reference does not hold is
\* either stored or rejected with a constraint error.
createTemplate_insert(r) ==
    /\ At(r, "createTemplate", "insert")
    /\ LET template == PromptTemplatesRow(TemplateId(Cardinality(templates) + 1),
                                          req[r].user, req[r].input, now)
       IN  \/ /\ templates' = templates \cup {template}
              /\ Return(r, "OK", {template})
           \/ /\ ~TemplateReferenceHolds(template.collectionId)
              /\ UNCHANGED templates
              /\ Return(r, "INTERNAL_SERVER_ERROR", {})
    /\ UNCHANGED <<collections, variables, issued, created, now>>

UpdateTemplateInputs ==
    UNION { { [id |-> id], [id |-> id, name |-> "x"],
              [id |-> id, name |-> "", promptBody |-> ""] }
            \cup { [id |-> id, collectionId |-> c] : c \in CollectionIdArgs \cup {""} }
            : id \in TemplateIdArgs }
    \cup { [id |-> "", name |-> "x"] }

\* the updateTemplate schema without its refine
updateTemplate_input_unrefined(input) == input.id # ""

updateTemplate_input(input) ==
    /\ input.id # ""
    /\ \/ Has(input, "collectionId")
       \/ Has(input, "name")
       \/ Has(input, "description")
       \/ Has(input, "modelHint")
       \/ Has(input, "promptBody")
       \/ Has(input, "tags")
       \/ Has(input, "isFavorite")

updateTemplate(r, user, input) ==
    /\ Free(r)
    /\ UNCHANGED <<store, now>>
    /\ IF ~updateTemplate_input(input)
        THEN Respond("updateTemplate", user, input, "VALIDATION", {}, 0)
        ELSE IF ~requireUser(user)
        THEN Respond("updateTemplate", user, input, "UNAUTHORIZED", {}, 0)
        ELSE IF getOwnedTemplate(input.id, user) # "OK"
        THEN Respond("updateTemplate", user, input,
                     getOwnedTemplate(input.id, user), {}, 1)
        ELSE IF Has(input, "collectionId")
        THEN Await(r, "updateTemplate", user, input, "collection", 1)
        ELSE Await(r, "updateTemplate", user, input, "update", 1)

updateTemplate_collection(r) ==
    /\ At(r, "updateTemplate", "collection")
    /\ UNCHANGED <<store, now>>
    /\ IF getOwnedCollection(req[r].input.collectionId, req[r].user) # "OK"
       THEN Return(r, getOwnedCollection(req[r].input.collectionId, req[r].user), {})
       ELSE Continue(r, "update")

updateTemplate_set(t, input, at) ==
    [t EXCEPT !.collectionId = IF Has(input, "collectionId") THEN Some(input.collectionId) ELSE @,
              !.name = IF Has(input, "name") THEN input.name ELSE @,
              !.description = IF Has(input, "description") THEN Some(input.description) ELSE @,
              !.modelHint = IF Has(input, "modelHint") THEN Some(input.modelHint) ELSE @,
              !.promptBody = IF Has(input, "promptBody") THEN input.promptBody ELSE @,
              !.tags = IF Has(input, "tags") THEN Some(input.tags) ELSE @,
              !.isFavorite = IF Has(input, "isFavorite") THEN input.isFavorite ELSE @,
              !.updatedAt = at]

updateTemplate_update(r) ==
    /\ At(r, "updateTemplate", "update")
    /\ LET input == req[r].input
           hit == {t \in templates : t.id = input.id}
           returning == {updateTemplate_set(t, input, now) : t \in hit}
       IN  \/ /\ templates' = (templates \ hit) \cup returning
              /\ Return(r, "OK", returning)
           \/ /\ \E t \in returning : ~TemplateReferenceHolds(t.collectionId)
              /\ UNCHANGED templates
              /\ Return(r, "INTERNAL_SERVER_ERROR", {})
    /\ UNCHANGED <<collections, variables, issued, created, now>>

ListTemplatesInputs == { <<>>, [favoritesOnly |-> TRUE], [favoritesOnly |-> FALSE] }

listTemplates(r, user, input) ==
    /\ Free(r)
    /\ UNCHANGED <<store, now>>
    /\ IF ~requireUser(user)
        THEN Respond("listTemplates", user, input, "UNAUTHORIZED", {}, 0)
        ELSE LET favoritesOnly == IF Has(input, "favoritesOnly")
                                  THEN input.favoritesOnly ELSE FALSE
                 items == {t \in templates :
                             t.userId = user /\ (favoritesOnly => t.isFavorite = TRUE)}
             IN  RespondItems("listTemplates", user, input, items)

\* ---------------------------------------------------------------- variables
CreatePromptVariableInputs ==
    UNION { { [templateId |-> t, name |-> "k"], [templateId |-> t, name |-> ""] }
            : t \in TemplateIdArgs }
    \cup { [templateId |-> "", name |-> "k"] }

createPromptVariable_input(input) == input.templateId # "" /\ input.name # ""

createPromptVariable(r, user, input) ==
    /\ Free(r)
    /\ UNCHANGED <<store, now>>
    /\ IF ~createPromptVariable_input(input)
        THEN Respond("createPromptVariable", user, input, "VALIDATION", {}, 0)
        ELSE IF ~requireUser(user)
        THEN Respond("createPromptVariable", user, input, "UNAUTHORIZED", {}, 0)
        ELSE IF getOwnedTemplate(input.templateId, user) # "OK"
        THEN Respond("createPromptVariable", user, input,
                     getOwnedTemplate(input.templateId, user), {}, 1)
        ELSE Await(r, "createPromptVariable", user, input, "insert", 1)

createPromptVariable_insert(r) ==
    /\ At(r, "createPromptVariable", "insert")
    /\ LET variable == PromptVariablesRow(VariableId(issued + 1), req[r].input, now)
       IN  \/ /\ variables' = variables \cup {variable}
              /\ issued' = issued + 1
              /\ Return(r, "OK", {variable})
           \/ /\ ~VariableReferenceHolds(variable.templateId)
              /\ UNCHANGED <<variables, issued>>
              /\ Return(r, "INTERNAL_SERVER_ERROR", {})
    /\ UNCHANGED <<collections, templates, created, now>>

UpdatePromptVariableInputs ==
    UNION { { [id |-> id, templateId |-> t], [id |-> id, templateId |-> t, name |-> "k2"] }
            : id \in VariableIdArgs, t \in TemplateIdArgs }
    \cup { [id |-> "", templateId |-> "zz", name |-> "k2"],
           [id |-> "zz", templateId |-> "", name |-> "k2"] }

updatePromptVariable_input(input) ==
    /\ input.id # ""
    /\ input.templateId # ""
    /\ \/ Has(input, "name")
       \/ Has(input, "label")
       \/ Has(input, "description")
       \/ Has(input, "inputType")
       \/ Has(input, "defaultValue")
       \/ Has(input, "optionsJson")
       \/ Has(input, "orderIndex")

updatePromptVariable(r, user, input) ==
    /\ Free(r)
    /\ UNCHANGED <<store, now>>
    /\ IF ~updatePromptVariable_input(input)
        THEN Respond("updatePromptVariable", user, input, "VALIDATION", {}, 0)
        ELSE IF ~requireUser(user)
        THEN Respond("updatePromptVariable", user, input, "UNAUTHORIZED", {}, 0)
        ELSE IF getOwnedTemplate(input.templateId, user) # "OK"
        THEN Respond("updatePromptVariable", user, input,
                     getOwnedTemplate(input.templateId, user), {}, 1)
        ELSE Await(r, "updatePromptVariable", user, input, "existing", 1)

updatePromptVariable_existing(r) ==
    /\ At(r, "updatePromptVariable", "existing")
    /\ UNCHANGED <<store, now>>
    /\ LET input == req[r].input
           existing == {v \in variables : v.id = input.id /\ v.templateId = input.templateId}
       IN  IF existing = {}
           THEN Return(r, "NOT_FOUND", {})
           ELSE Continue(r, "update")

updatePromptVariable_set(v, input) ==
    [v EXCEPT !.name = IF Has(input, "name") THEN input.name ELSE @,
              !.label = IF Has(input, "label") THEN Some(input.label) ELSE @,
              !.description = IF Has(input, "description") THEN Some(input.description) ELSE @,
              !.inputType = IF Has(input, "inputType") THEN Some(input.inputType) ELSE @,
              !.defaultValue = IF Has(input, "defaultValue") THEN Some(input.defaultValue) ELSE @,
              !.optionsJson = IF Has(input, "optionsJson") THEN Some(input.optionsJson) ELSE @,
              !.orderIndex = IF Has(input, "orderIndex") THEN Some(input.orderIndex) ELSE @]

updatePromptVariable_update(r) ==
    /\ At(r, "updatePromptVariable", "update")
    /\ LET input == req[r].input
           hit == {v \in variables : v.id = input.id}
           returning == {updatePromptVariable_set(v, input) : v \in hit}
       IN  /\ variables' = (variables \ hit) \cup returning
           /\ Return(r, "OK", returning)
    /\ UNCHANGED <<collections, templates, issued, created, now>>

DeletePromptVariableInputs ==
    { [id |-> id, templateId |-> t] : id \in VariableIdArgs, t \in TemplateIdArgs }
    \cup { [id |-> "", templateId |-> "zz"], [id |-> "zz", templateId |-> ""] }

deletePromptVariable_input(input) == input.id # "" /\ input.templateId # ""

deletePromptVariable(r, user, input) ==
    /\ Free(r)
    /\ UNCHANGED <<store, now>>
    /\ IF ~deletePromptVariable_input(input)
        THEN Respond("deletePromptVariable", user, input, "VALIDATION", {}, 0)
        ELSE IF ~requireUser(user)
        THEN Respond("deletePromptVariable", user, input, "UNAUTHORIZED", {}, 0)
        ELSE IF getOwnedTemplate(input.templateId, user) # "OK"
        THEN Respond("deletePromptVariable", user, input,
                     getOwnedTemplate(input.templateId, user), {}, 1)
        ELSE Await(r, "deletePromptVariable", user, input, "delete", 1)

\* the delete matching on the id alone
deletePromptVariable_whereId(v, input) == v.id = input.id

deletePromptVariable_where(v, input) ==
    v.id = input.id /\ v.templateId = input.templateId

deletePromptVariable_delete(r) ==
    /\ At(r, "deletePromptVariable", "delete")
    /\ LET input == req[r].input
           hit == {v \in variables : deletePromptVariable_where(v, input)}
           rowsAffected == Cardinality(hit)
       IN  /\ variables' = variables \ hit
           /\ IF rowsAffected = 0
              THEN Return(r, "NOT_FOUND", {})
              ELSE Return(r, "OK", {})
    /\ UNCHANGED <<collections, templates, issued, created, now>>

ListPromptVariablesInputs == { [templateId |-> t] : t \in TemplateIdArgs \cup {""} }

listPromptVariables_input(input) == input.templateId # ""

listPromptVariables(r, user, input) ==
    /\ Free(r)
    /\ UNCHANGED <<store, now>>
    /\ IF ~listPromptVariables_input(input)
        THEN Respond("listPromptVariables", user, input, "VALIDATION", {}, 0)
        ELSE IF ~requireUser(user)
        THEN Respond("listPromptVariables", user, input, "UNAUTHORIZED", {}, 0)
        ELSE IF getOwnedTemplate(input.templateId, user) # "OK"
        THEN Respond("listPromptVariables", user, input,
                     getOwnedTemplate(input.templateId, user), {}, 1)
        ELSE Await(r, "listPromptVariables", user, input, "select", 1)

listPromptVariables_select(r) ==
    /\ At(r, "listPromptVariables", "select")
    /\ UNCHANGED <<store, now>>
    /\ LET items == {v \in variables : v.templateId = req[r].input.templateId}
       IN  ReturnItems(r, items)

\* -------------------------------------------------------------------- clock
\* The caller receives the response.  This touches nothing the handlers share,
\* so it is taken before any other step.
Deliver ==
    /\ ~Ready
    /\ response' = NoResponse
    /\ UNCHANGED <<store, now, req>>

Tick ==
    /\ Ready
    /\ now < MaxClock
    /\ now' = now + 1
    /\ UNCHANGED <<store, req, response>>

Init ==
    /\ collections = {}
    /\ templates = {}
    /\ variables = {}
    /\ issued = 0
    /\ created = {}
    /\ now = 0
    /\ req = [r \in Reqs |-> Idle]
    /\ response = NoResponse

\* One request at a time: the handlers run to completion one after another.
Next ==
    \/ Tick
    \/ Deliver
    \/ \E r \in {1}, user \in Callers, input \in CreateCollectionInputs : createCollection(r, user, input)
           /\ Within(MaxCollections, MaxTemplates, MaxVariables)'
    \/ \E r \in {1}, user \in Callers, input \in UpdateCollectionInputs : updateCollection(r, user, input)
    \/ \E r \in {1} : updateCollection_update(r)
    \/ \E r \in {1}, user \in Callers : listCollections(r, user)
    \/ \E r \in {1}, user \in Callers, input \in CreateTemplateInputs : createTemplate(r, user, input)
           /\ Within(MaxCollections, MaxTemplates, MaxVariables)'
    \/ \E r \in {1} : createTemplate_insert(r)
    \/ \E r \in {1}, user \in Callers, input \in UpdateTemplateInputs : updateTemplate(r, user, input)
    \/ \E r \in {1} : updateTemplate_collection(r)
    \/ \E r \in {1} : updateTemplate_update(r)
    \/ \E r \in {1}, user \in Callers, input \in ListTemplatesInputs : listTemplates(r, user, input)
    \/ \E r \in {1}, user \in Callers, input \in CreatePromptVariableInputs : createPromptVariable(r, user, input)
           /\ Within(MaxCollections, MaxTemplates, MaxVariables)'
    \/ \E r \in {1} : createPromptVariable_insert(r)
    \/ \E r \in {1}, user \in Callers, input \in UpdatePromptVariableInputs : updatePromptVariable(r, user, input)
    \/ \E r \in {1} : updatePromptVariable_existing(r)
    \/ \E r \in {1} : updatePromptVariable_update(r)
    \/ \E r \in {1}, user \in Callers, input \in DeletePromptVariableInputs : deletePromptVariable(r, user, input)
    \/ \E r \in {1} : deletePromptVariable_delete(r)
    \/ \E r \in {1}, user \in Callers, input \in ListPromptVariablesInputs : listPromptVariables(r, user, input)
    \/ \E r \in {1} : listPromptVariables_select(r)


Spec == Init /\ [][Next]_vars

\* Requests in flight together: the store statements of up to MaxInFlight
\* requests on templates and their variables interleave.
NextRace ==
    \/ Tick
    \/ Deliver
    \/ \E r \in Reqs, user \in Callers, input \in CreateTemplateInputs : createTemplate(r, user, input)
           /\ Within(0, MaxRaceTemplates, MaxVariables)'
    \/ \E r \in Reqs : createTemplate_insert(r)
    \/ \E r \in Reqs, user \in Callers, input \in CreatePromptVariableInputs : createPromptVariable(r, user, input)
           /\ Within(0, MaxRaceTemplates, MaxVariables)'
    \/ \E r \in Reqs : createPromptVariable_insert(r)
    \/ \E r \in Reqs, user \in Callers, input \in UpdatePromptVariableInputs : updatePromptVariable(r, user, input)
    \/ \E r \in Reqs : updatePromptVariable_existing(r)
    \/ \E r \in Reqs : updatePromptVariable_update(r)
    \/ \E r \in Reqs, user \in Callers, input \in DeletePromptVariableInputs : deletePromptVariable(r, user, input)
    \/ \E r \in Reqs : deletePromptVariable_delete(r)
    \/ \E r \in Reqs, user \in Callers, input \in ListPromptVariablesInputs : listPromptVariables(r, user, input)
    \/ \E r \in Reqs : listPromptVariables_select(r)

SpecRace == Init /\ [][NextRace]_vars
\* ------------------------------------------------------------------ claims
\* a step in which a request ends and its response is returned
Responds == Ready /\ ~Ready'

Authenticated(user) == user \in Users

\* C1: getOwnedTemplate(t, u) is NOT_FOUND when no template has id t and
\* FORBIDDEN when the template with id t belongs to another user;
\* getOwnedCollection(c, u) is NOT_FOUND in both of these cases and never
\* FORBIDDEN; each succeeds exactly when the row exists and belongs to u.
C1_Resolvers ==
    /\ \A t \in TemplateIdArgs, u \in Users :
        /\ (~\E row \in templates : row.id = t) => getOwnedTemplate(t, u) = "NOT_FOUND"
        /\ (\E row \in templates : row.id = t /\ row.userId # u)
               => getOwnedTemplate(t, u) = "FORBIDDEN"
        /\ getOwnedTemplate(t, u) = "OK"
               <=> \E row \in templates : row.id = t /\ row.userId = u
    /\ \A c \in CollectionIdArgs, u \in Users :
        /\ (~\E row \in collections : row.id = c) => getOwnedCollection(c, u) = "NOT_FOUND"
        /\ (\E row \in collections : row.id = c /\ row.userId # u)
               => getOwnedCollection(c, u) = "NOT_FOUND"
        /\ getOwnedCollection(c, u) # "FORBIDDEN"
        /\ getOwnedCollection(c, u) = "OK"
               <=> \E row \in collections : row.id = c /\ row.userId = u

\* a collection and a template of another user have each been resolved: the
\* collection by an updateCollection that ended NOT_FOUND
C1_Witness ==
    /\ response.op = "updateCollection"
    /\ response.code = "NOT_FOUND"
    /\ \E c \in collections : c.id = response.input.id /\ c.userId # response.user
    /\ \E t \in templates : getOwnedTemplate(t.id, response.user) = "FORBIDDEN"

\* C2: updateTemplate by an authenticated user on a template of another user,
\* with schema-valid input, ends FORBIDDEN and leaves the templates as they were.
C2_ForeignUpdateForbidden ==
    [][ ( /\ Responds
          /\ response'.op = "updateTemplate"
          /\ Authenticated(response'.user)
          /\ updateTemplate_input(response'.input)
          /\ \E t \in templates : t.id = response'.input.id /\ t.userId # response'.user )
        => ( response'.code = "FORBIDDEN" /\ templates' = templates ) ]_vars

C2_Witness ==
    /\ response.op = "updateTemplate"
    /\ response.code = "FORBIDDEN"
    /\ Has(response.input, "name")
    /\ \E t \in templates : t.id = response.input.id /\ t.userId # response.user

\* C3: listCollections by user U returns exactly the collections whose userId
\* is U, among them every collection U created, and total is their number.
C3_ListCollections ==
    (response.op = "listCollections" /\ response.code = "OK") =>
        /\ response.data = {c \in collections : c.userId = response.user}
        /\ \A p \in created :
               p[2] = response.user => \E c \in response.data : c.id = p[1]
        /\ response.total = Some(Cardinality(response.data))

C3_Witness ==
    /\ response.op = "listCollections"
    /\ response.code = "OK"
    /\ response.data # {}
    /\ response.total = Some(1)

\* C4: updateCollection, updateTemplate and updatePromptVariable with only
\* id (and templateId) fail validation before any store statement: the store
\* is unchanged.
C4_BareUpdateFailsValidation ==
    [][ ( /\ Responds
          /\ response'.op \in {"updateCollection", "updateTemplate", "updatePromptVariable"}
          /\ DOMAIN response'.input \subseteq {"id", "templateId"} )
        => ( /\ response'.code = "VALIDATION"
             /\ response'.stmts = 0
             /\ store' = store ) ]_vars

\* a bare update of a variable that exists, sent with its template
C4_Witness ==
    /\ response.op = "updatePromptVariable"
    /\ response.code = "VALIDATION"
    /\ DOMAIN response.input = {"id", "templateId"}
    /\ \E v \in variables :
           v.id = response.input.id /\ v.templateId = response.input.templateId

\* C5: createTemplate with the collectionId of another user's collection ends
\* NOT_FOUND and inserts no template.
C5_ForeignCollectionNoInsert ==
    [][ ( /\ Responds
          /\ response'.op = "createTemplate"
          /\ Authenticated(response'.user)
          /\ createTemplate_input(response'.input)
          /\ Has(response'.input, "collectionId")
          /\ \E c \in collections :
                 c.id = response'.input.collectionId /\ c.userId # response'.user )
        => ( response'.code = "NOT_FOUND" /\ templates' = templates ) ]_vars

C5_Witness ==
    /\ response.op = "createTemplate"
    /\ response.code = "NOT_FOUND"
    /\ response.stmts = 1
    /\ \E c \in collections :
           Some(c.id) = Opt(response.input, "collectionId") /\ c.userId # response.user

\* the deletePromptVariable that ends in this step names a variable that
\* exists, with a templateId that is not the variable's
MismatchedDelete(v) ==
    /\ Responds
    /\ response'.op = "deletePromptVariable"
    /\ Authenticated(response'.user)
    /\ deletePromptVariable_input(response'.input)
    /\ v.id = response'.input.id
    /\ v.templateId # response'.input.templateId

\* C6 as stated: deletePromptVariable with the id of an existing variable and
\* another templateId ends NOT_FOUND, for any caller, and the variable stays.
C6_MismatchedDeleteNotFound ==
    [][ \A v \in variables :
            MismatchedDelete(v) => (response'.code = "NOT_FOUND" /\ v \in variables') ]_vars

\* C6 amended: it ends FORBIDDEN when templateId names a template of another
\* user and NOT_FOUND otherwise; the variable stays in both cases.
C6_MismatchedDeleteFails ==
    [][ \A v \in variables :
            MismatchedDelete(v) =>
                /\ response'.code =
                       IF \E t \in templates : /\ t.id = response'.input.templateId
                                               /\ t.userId # response'.user
                       THEN "FORBIDDEN" ELSE "NOT_FOUND"
                /\ v \in variables' ]_vars

\* the delete statement ran on the caller's own template and matched no row
C6_Witness ==
    /\ response.op = "deletePromptVariable"
    /\ response.code = "NOT_FOUND"
    /\ response.stmts = 2
    /\ \E v \in variables :
           v.id = response.input.id /\ v.templateId # response.input.templateId

\* C7: every stored template whose collectionId is set references a collection
\* that exists and has the template's userId.
C7_CollectionOfSameUser ==
    \A t \in templates :
        t.collectionId # NULL =>
            \E c \in collections : Some(c.id) = t.collectionId /\ c.userId = t.userId

\* C8: every stored template has a non-empty name and a non-empty promptBody.
C8_NameAndBodyNonEmpty ==
    \A t \in templates : t.name # "" /\ t.promptBody # ""

\* C9: a handler called without an authenticated user ends UNAUTHORIZED
\* having issued no store statement, and leaves the store unchanged.
C9_UnauthorizedBeforeStore ==
    [][ ( /\ Responds
          /\ response'.user = NoUser
          /\ response'.code # "VALIDATION" )
        => ( /\ response'.code = "UNAUTHORIZED"
             /\ response'.stmts = 0
             /\ store' = store ) ]_vars

\* an anonymous deletePromptVariable naming a variable that exists
C9_Witness ==
    /\ response.op = "deletePromptVariable"
    /\ response.user = NoUser
    /\ response.code = "UNAUTHORIZED"
    /\ \E v \in variables : deletePromptVariable_where(v, response.input)

\* C10: an updatePromptVariable that succeeds returns the updated row with the
\* requested id.
C10_SuccessCarriesVariable ==
    (response.op = "updatePromptVariable" /\ response.code = "OK") =>
        \E v \in response.data : v.id = response.input.id
====
